---- MODULE Spec2Model ----
(***************************************************************************)
(* UltraCortex image-quality metrics: the four metric functions of         *)
(* ultracortex/metrics.py, the batch loop Runner.calculate_metrics of      *)
(* ultracortex/runner.py and the sequence run by main() of main.py.        *)
(*                                                                         *)
(* Numbers.  The metric functions return IEEE doubles.  A result is a      *)
(* record with a field "kind":                                             *)
(*   "nan", "inf" (with its sign), "none" (Python's None), "raise" (an     *)
(*   exception, with its class), or an exact real kept in closed form:     *)
(*   "efc"   (sum_i (v_i/b) ln(v_i/b)) / (sqrt(n) ln(1/sqrt(n))),          *)
(*           b = sqrt(q)                                                   *)
(*   "ratio" sgn * sqrt(num/den)               (anatomical_snr, cnr)       *)
(*   "cjv"   (a*sqrt(vw) + b*sqrt(vg)) / d     (cjv)                       *)
(* The arithmetic on reals is exact; what IEEE arithmetic decides (a       *)
(* division by zero, 0/0, the logarithm or root of a negative number,      *)
(* inf*0) is decided as IEEE decides it.                                   *)
(*                                                                         *)
(* Arrays.  A voxel array is [shape, data, den]: its shape, its elements   *)
(* in C order as integer numerators, and their common denominator; den = 0 *)
(* is an array of NaN (0/0 in every element).  A label array is            *)
(* [shape, data].                                                          *)
(***************************************************************************)
EXTENDS Integers, Sequences, FiniteSets

VARIABLES
    \* ---- Runner.calculate_metrics and main ----
    cols,       \* the column names of the cohort table (self.df.columns)
    df,         \* the rows of the cohort table, each [sub, ses]
    fsImg,      \* file system: identifiers -> primary volume, "missing", "unknown"
    fsSkull,    \* file system: identifiers -> skull-stripped volume, ...
    fsSeg,      \* file system: identifiers -> manual segmentation, ...
    pc,         \* position in main / calculate_metrics
    row,        \* index of the row the loop is at (1-based)
    subids, sesids, efcs, t_snr, cnrs, cjvs,   \* the six accumulators
    img_data,   \* the primary volume of the current row, cast to int32
    stdout,     \* the diagnostics printed, in order
    csv,        \* metrics.csv: "absent", or the table written
    nwrites,    \* how many times to_csv ran
    exc,        \* the exception that ended the run, "" if none
    \* ---- one call of a metric function on its own ----
    fnImg, fnSeg, fnDtype, fnOut, fnPc

vars == <<cols, df, fsImg, fsSkull, fsSeg, pc, row, subids, sesids, efcs,
          t_snr, cnrs, cjvs, img_data, stdout, csv, nwrites, exc,
          fnImg, fnSeg, fnDtype, fnOut, fnPc>>

batchVars == <<cols, df, fsImg, fsSkull, fsSeg, pc, row, subids, sesids, efcs,
               t_snr, cnrs, cjvs, img_data, stdout, csv, nwrites, exc>>

fnVars == <<fnImg, fnSeg, fnDtype, fnOut, fnPc>>

(***************************************************************************)
(* Bounds of the model.                                                    *)
(***************************************************************************)
MaxRows == 2    \* rows of the cohort table
MaxVox == 3     \* voxels of a volume handed to a metric function on its own
MaxVal == 3     \* largest intensity of such a volume

(***************************************************************************)
(* Values.                                                                 *)
(***************************************************************************)
NaN == [kind |-> "nan"]
Inf(s) == [kind |-> "inf", sgn |-> s]
None == [kind |-> "none"]
Raise(e) == [kind |-> "raise", exc |-> e]

isnan(x) == x.kind = "nan"
isinf(x) == x.kind = "inf"
IsNumber(x) == x.kind \notin {"none", "raise"}

Abs(x) == IF x < 0 THEN -x ELSE x
Sign(x) == IF x < 0 THEN -1 ELSE IF x = 0 THEN 0 ELSE 1

\* x / 0.0 on Python floats raises; on numpy doubles, x of the given sign,
\* it gives a warning and no exception.
FloatDivZeroRaises(sgn) == Raise("ZeroDivisionError")
FloatDivZero(sgn) == IF sgn = 0 THEN NaN ELSE Inf(sgn)

RECURSIVE SumOver(_, _)
SumOver(f, S) ==
    IF S = {} THEN 0
    ELSE LET x == CHOOSE y \in S : TRUE IN f[x] + SumOver(f, S \ {x})

RECURSIVE Prod(_)
Prod(s) == IF s = <<>> THEN 1 ELSE Head(s) * Prod(Tail(s))

Vol(shape, data) == [shape |-> shape, data |-> data, den |-> 1]
Lab(shape, data) == [shape |-> shape, data |-> data]

(***************************************************************************)
(* Segmentation labels.                                                    *)
(***************************************************************************)
WM_LABELS == {2, 41}
GM_LABELS == {3, 42}
BG_LABELS == {0}

decimals == 4

(***************************************************************************)
(* Integers wider than the model checker's: <<hi, lo>> is hi * 2^16 + lo,  *)
(* 0 <= lo < 2^16.  Used for squares of int32 intensities and their sum.   *)
(***************************************************************************)
W16 == 2 ^ 16

Wide(hi, lo) == [hi |-> hi, lo |-> lo]

WAdd(a, b) ==
    Wide(a.hi + b.hi + ((a.lo + b.lo) \div W16), (a.lo + b.lo) % W16)

WSign(w) == IF w.hi < 0 THEN -1 ELSE IF w.hi = 0 /\ w.lo = 0 THEN 0 ELSE 1

\* The square of v as a real number (|v| < 2^20).
Square(v) ==
    LET a == Abs(v)
        h == a \div 256
        l == a % 256
        t == 2 * h * l * 256 + l * l
    IN  Wide(h * h + (t \div W16), t % W16)

\* What an int32 holds after a wrap-around: the value modulo 2^32, in
\* -2^31 .. 2^31 - 1.
WrapInt32(w) == Wide(((w.hi + 2 ^ 15) % W16) - 2 ^ 15, w.lo)

\* One element of img ** 2.
SquareFloat64(v) == Square(v)
SquareInt32(v) == WrapInt32(Square(v))
ElemSquare(v, dtype) ==
    IF dtype = "int32" THEN SquareInt32(v) ELSE SquareFloat64(v)

\* (img ** 2).sum(): the elements keep img's dtype, the sum of int32
\* elements is accumulated in the platform integer (64 bits).
RECURSIVE SumSquares(_, _)
SumSquares(data, dtype) ==
    IF data = <<>> THEN Wide(0, 0)
    ELSE WAdd(ElemSquare(Head(data), dtype), SumSquares(Tail(data), dtype))

RECURSIVE TrueSumSquares(_)
TrueSumSquares(data) ==
    IF data = <<>> THEN Wide(0, 0)
    ELSE WAdd(Square(Head(data)), TrueSumSquares(Tail(data)))

(***************************************************************************)
(* efc(img, framemask=None, decimals=4) on an array of integer-valued      *)
(* intensities of the given dtype.  For such intensities v + 1e-16 is v    *)
(* when v >= 1, and a zero voxel contributes (0/b) * ln(1e-16/b) = 0.      *)
(***************************************************************************)
\* b_max ** 2, the argument of np.sqrt (BMaxNoSquare: the sum without the
\* "** 2").
BMaxNoSquare(img, dtype) ==
    Wide(0, SumOver([i \in 1..Len(img.data) |-> img.data[i]], 1..Len(img.data)))
BMaxSq(img, dtype) == SumSquares(img.data, dtype)

\* One term (v/b) * ln((v + 1e-16)/b) of the sum, by IEEE class:
\* "nan", "inf" (+inf) or "fin".
EfcTerm(v, q) ==
    CASE WSign(q) < 0 -> "nan"                      \* b_max = sqrt(negative)
      [] WSign(q) = 0 /\ v = 0 -> "nan"             \* 0/0
      [] WSign(q) = 0 /\ v > 0 -> "inf"             \* inf * ln(inf)
      [] WSign(q) = 0 /\ v < 0 -> "nan"             \* ln(-inf)
      [] WSign(q) > 0 /\ v < 0 -> "nan"             \* ln(negative)
      [] OTHER -> "fin"

\* v*v > q, v*v = q, v*v < q as 1, 0, -1 (v >= 0, q >= 0).
CmpSquare(v, q) ==
    LET s == Square(v) IN
    IF s.hi # q.hi THEN Sign(s.hi - q.hi) ELSE Sign(s.lo - q.lo)

efc(img, dtype) ==
    LET data == img.data
        n_vox == Len(data)
        q == BMaxSq(img, dtype)
        terms == {EfcTerm(data[i], q) : i \in 1..n_vox}
    IN  IF "nan" \in terms \/ n_vox = 0 THEN NaN
        ELSE IF n_vox = 1
             \* efc_max = 0.0, 1.0/efc_max = +inf; the sum is
             \* (v/b) ln(v/b), zero when b = v
             THEN IF "inf" \in terms THEN Inf(1)
                  ELSE IF CmpSquare(data[1], q) = 0 THEN NaN
                  ELSE Inf(CmpSquare(data[1], q))
        \* efc_max < 0
        ELSE IF "inf" \in terms THEN Inf(-1)
        ELSE [kind |-> "efc", n |-> n_vox, q |-> q, data |-> data,
              decimals |-> decimals]

(***************************************************************************)
(* Exact tests on an "efc" real.  With s = sum of the intensities,         *)
(*   efc = (s ln q - 2 sum_i v_i ln v_i) / (sqrt(q n) ln n),               *)
(* and a combination of logarithms of primes with integer coefficients is  *)
(* zero only if every coefficient is.                                      *)
(***************************************************************************)
RECURSIVE ExpOf(_, _)
ExpOf(p, m) == IF m % p = 0 THEN 1 + ExpOf(p, m \div p) ELSE 0

IsPrime(p) == p >= 2 /\ \A d \in 2..(p - 1) : p % d # 0

RealQ(x) == x.q.hi * W16 + x.q.lo

EfcPrimes(x) == {p \in 2..RealQ(x) : IsPrime(p)} \cup {p \in 2..x.n : IsPrime(p)}

EfcNum(x, p) ==
    LET I == {i \in 1..x.n : x.data[i] > 0}
        s == SumOver([i \in I |-> x.data[i]], I)
    IN  s * ExpOf(p, RealQ(x))
        - 2 * SumOver([i \in I |-> x.data[i] * ExpOf(p, x.data[i])], I)

EfcDen(x, p) == ExpOf(p, x.n)

EfcIsZero(x) ==
    x.kind = "efc" /\ \A p \in EfcPrimes(x) : EfcNum(x, p) = 0

EfcIsOne(x) ==
    /\ x.kind = "efc"
    /\ \A p \in EfcPrimes(x) :
          /\ EfcNum(x, p) >= 0
          /\ EfcNum(x, p) * EfcNum(x, p) = RealQ(x) * x.n * EfcDen(x, p) * EfcDen(x, p)

(***************************************************************************)
(* Statistics of the elements of an array selected by a set of indices:    *)
(* k elements, sum s and sum of squares t of the numerators.  Their mean   *)
(* is s/(k*den) and their population variance v/(k*den)^2, v = k*t - s*s.  *)
(***************************************************************************)
Stats(img, I) ==
    LET k == Cardinality(I)
        s == SumOver([i \in I |-> img.data[i]], I)
        t == SumOver([i \in I |-> img.data[i] * img.data[i]], I)
    IN  [k |-> k, s |-> s, v |-> k * t - s * s]

(***************************************************************************)
(* anatomical_snr(img): mean / (std * sqrt(n / (n - 1))).  n is a Python   *)
(* int, so n / (n - 1) raises ZeroDivisionError when n = 1; the other      *)
(* operands are numpy doubles.                                             *)
(***************************************************************************)
anatomical_snr(img) ==
    LET n_voxels == Len(img.data)
        st == Stats(img, 1..n_voxels)
    IN  IF n_voxels = 0 \/ img.den = 0 THEN NaN
        ELSE IF n_voxels = 1 THEN Raise("ZeroDivisionError")
        ELSE IF st.v = 0
             THEN FloatDivZero(Sign(st.s))
        ELSE [kind |-> "ratio", sgn |-> Sign(st.s),
              num |-> st.s * st.s * (n_voxels - 1), den |-> st.v * n_voxels,
              decimals |-> decimals]

(***************************************************************************)
(* img[np.isin(seg, LABELS)]: boolean indexing.  numpy accepts a mask      *)
(* whose shape is a leading part of img's shape (a True selects the whole  *)
(* sub-array at that position) and raises IndexError otherwise.            *)
(***************************************************************************)
MaskFits(img, seg) ==
    /\ Len(seg.shape) <= Len(img.shape)
    /\ \A d \in 1..Len(seg.shape) : seg.shape[d] = img.shape[d]

isin(seg, labels) == {j \in 1..Len(seg.data) : seg.data[j] \in labels}

\* The flat indices of img that the mask selects.
Masked(img, seg, labels) ==
    LET block == Prod(img.shape) \div Prod(seg.shape)
    IN  {(j - 1) * block + r : j \in isin(seg, labels), r \in 1..block}

(***************************************************************************)
(* cnr(img, seg): (mean_wm - mean_gm) / sqrt(std_bg^2 + std_wm^2 + std_gm^2)*)
(***************************************************************************)
cnr(img, seg) ==
    IF ~MaskFits(img, seg) THEN Raise("IndexError")
    ELSE
    LET wm == Stats(img, Masked(img, seg, WM_LABELS))
        gm == Stats(img, Masked(img, seg, GM_LABELS))
        bg == Stats(img, Masked(img, seg, BG_LABELS))
        diff == wm.s * gm.k - gm.s * wm.k
        noise == bg.v * wm.k * wm.k * gm.k * gm.k
                 + wm.v * bg.k * bg.k * gm.k * gm.k
                 + gm.v * bg.k * bg.k * wm.k * wm.k
    IN  \* the mean and the std of an empty selection, and of NaNs, are NaN
        IF img.den = 0 \/ wm.k = 0 \/ gm.k = 0 \/ bg.k = 0 THEN NaN
        ELSE IF noise = 0
             THEN FloatDivZero(Sign(diff))
        ELSE [kind |-> "ratio", sgn |-> Sign(diff),
              num |-> diff * diff * bg.k * bg.k, den |-> noise,
              decimals |-> decimals]

(***************************************************************************)
(* cjv(img, seg): (std_wm + std_gm) / abs(mean_wm - mean_gm)               *)
(***************************************************************************)
cjv(img, seg) ==
    IF ~MaskFits(img, seg) THEN Raise("IndexError")
    ELSE
    LET wm == Stats(img, Masked(img, seg, WM_LABELS))
        gm == Stats(img, Masked(img, seg, GM_LABELS))
        absdiff == Abs(wm.s * gm.k - gm.s * wm.k)
    IN  IF img.den = 0 \/ wm.k = 0 \/ gm.k = 0 THEN NaN
        ELSE IF absdiff = 0
             THEN FloatDivZero(IF wm.v = 0 /\ gm.v = 0 THEN 0 ELSE 1)
        ELSE [kind |-> "cjv", a |-> gm.k, vw |-> wm.v, b |-> wm.k, vg |-> gm.v,
              d |-> absdiff, decimals |-> decimals]

(***************************************************************************)
(* One call of a metric function on its own.                               *)
(***************************************************************************)
NoVol == Vol(<<>>, <<>>)
NoLab == Lab(<<>>, <<>>)

\* The 1-D arrays of n elements drawn from S.
Arrays(n, S) == [1..n -> S]

Int32Samples == {0, 1, 46340, 46341, 65536}
LabelSamples == {0, 2, 3, 41, 42}

BatchIdle ==
    /\ cols = {} /\ df = <<>>
    /\ fsImg = <<>> /\ fsSkull = <<>> /\ fsSeg = <<>>
    /\ pc = "idle" /\ row = 0
    /\ subids = <<>> /\ sesids = <<>> /\ efcs = <<>>
    /\ t_snr = <<>> /\ cnrs = <<>> /\ cjvs = <<>>
    /\ img_data = NoVol /\ stdout = <<>>
    /\ csv = [written |-> FALSE] /\ nwrites = 0 /\ exc = ""

\* efc on a volume of small intensities, as float64 and as int32.
InitEfc ==
    /\ BatchIdle
    /\ \E n \in 1..MaxVox : \E d \in Arrays(n, 0..MaxVal) : fnImg = Vol(<<n>>, d)
    /\ fnDtype \in {"float64", "int32"}
    /\ fnSeg = NoLab /\ fnOut = None /\ fnPc = "ready"

\* efc on an int32 volume with intensities around sqrt(2^31).
InitBMax ==
    /\ BatchIdle
    /\ \E n \in 1..MaxVox : \E d \in Arrays(n, Int32Samples) : fnImg = Vol(<<n>>, d)
    /\ fnDtype = "int32"
    /\ fnSeg = NoLab /\ fnOut = None /\ fnPc = "ready"

\* cjv on a volume and a label array of the same shape.
InitCjv ==
    /\ BatchIdle
    /\ \E n \in 1..MaxVox :
          /\ \E d \in Arrays(n, 0..MaxVal) : fnImg = Vol(<<n>>, d)
          /\ \E l \in Arrays(n, LabelSamples) : fnSeg = Lab(<<n>>, l)
    /\ fnDtype = "float64" /\ fnOut = None /\ fnPc = "ready"

CallEfc ==
    /\ fnPc = "ready"
    /\ fnOut' = efc(fnImg, fnDtype)
    /\ fnPc' = "done"
    /\ UNCHANGED <<fnImg, fnSeg, fnDtype>>
    /\ UNCHANGED batchVars

CallCjv ==
    /\ fnPc = "ready"
    /\ fnOut' = cjv(fnImg, fnSeg)
    /\ fnPc' = "done"
    /\ UNCHANGED <<fnImg, fnSeg, fnDtype>>
    /\ UNCHANGED batchVars

SpecEfc == InitEfc /\ [][CallEfc]_vars
SpecBMax == InitBMax /\ [][CallEfc]_vars
SpecCjv == InitCjv /\ [][CallCjv]_vars

(***************************************************************************)
(* main(): the cohort table, the files below base_dir, and the run         *)
(* Runner.calculate_metrics, pd.read_csv, create_all_plots,                *)
(* print_statistics.                                                       *)
(***************************************************************************)
\* The identifier columns a cohort table may carry, beside the column the
\* plots group by.
BidsNames == {"participant_id", "session_id"}
LegacyNames == {"SubID", "SessionID"}
Namings ==
    {BidsNames \cup {"Sequence"}, LegacyNames \cup {"Sequence"},
     BidsNames \cup LegacyNames \cup {"Sequence"}}

Ids == [sub : {"sub-1", "sub-2"}, ses : {1}]

\* What a path holds: a file with its array, nothing, or not looked at yet.
File(a) == [kind |-> "file", arr |-> a]
Missing == [kind |-> "missing"]
Unknown == [kind |-> "unknown"]

\* The arrays get_fdata() returns for the files the cohort may hold.
ImgFiles ==
    {File(Vol(<<2, 2>>, <<0, 1, 2, 3>>)),
     File(Vol(<<2>>, <<0, 0>>)),
     File(Vol(<<2>>, <<65536, 65536>>)),
     File([shape |-> <<2>>, data |-> <<3, 5>>, den |-> 2])}
SkullFiles ==
    {File(Vol(<<2>>, <<1, 3>>)),
     File(Vol(<<2>>, <<2, 2>>)),
     File(Vol(<<1>>, <<5>>))}
SegFiles ==
    {File(Vol(<<2, 2>>, <<0, 2, 3, 0>>)),
     File(Vol(<<2>>, <<2, 3>>)),
     File(Vol(<<3>>, <<0, 2, 3>>))}

\* nib.load(path) of a path: the file the path holds, fixed once looked at.
Holds(fs, id, f) == fs[id] = Unknown \/ fs[id] = f

\* np.array(x.get_fdata(), dtype=np.int32): truncation towards zero.
Trunc(num, den) == IF num < 0 THEN -((-num) \div den) ELSE num \div den
CastInt32(a) ==
    Vol(a.shape, [i \in 1..Len(a.data) |-> Trunc(a.data[i], a.den)])

RECURSIVE SeqMin(_)
SeqMin(s) ==
    IF Len(s) = 1 THEN s[1]
    ELSE LET m == SeqMin(Tail(s)) IN IF s[1] < m THEN s[1] ELSE m
RECURSIVE SeqMax(_)
SeqMax(s) ==
    IF Len(s) = 1 THEN s[1]
    ELSE LET m == SeqMax(Tail(s)) IN IF s[1] > m THEN s[1] ELSE m

\* (img_data - img_data.min()) / (img_data.max() - img_data.min())
Normalize(a) ==
    [shape |-> a.shape,
     data |-> [i \in 1..Len(a.data) |-> a.data[i] - SeqMin(a.data)],
     den |-> SeqMax(a.data) - SeqMin(a.data)]

\* The diagnostic of a NaN or infinite EFC (NeedsDiagnosticNanOnly: without
\* the np.isinf test).
NeedsDiagnosticNanOnly(x) == isnan(x)
NeedsDiagnostic(x) == isnan(x) \/ isinf(x)

\* The segmentation step of one row: the pair appended to cnrs and cjvs,
\* or the exception raised.
SegComputed(img, segarr) ==
    LET seg == CastInt32(segarr)
        img_data_normalized == Normalize(img)
        c == cnr(img_data_normalized, seg)
    IN  IF c.kind = "raise" THEN c
        ELSE [kind |-> "pair", cnr |-> c, cjv |-> cjv(img_data_normalized, seg)]

\* SegMetricsNoExistsCheck: the step without its os.path.exists test.
SegMetricsNoExistsCheck(img, segfile) ==
    IF segfile.kind = "file" THEN SegComputed(img, segfile.arr)
    ELSE Raise("FileNotFoundError")
SegMetrics(img, segfile) ==
    IF segfile.kind = "file" THEN SegComputed(img, segfile.arr)
    ELSE [kind |-> "pair", cnr |-> None, cjv |-> None]

\* pd.DataFrame({...}).to_csv(path, index=False): one column per list; None
\* and NaN are both written as an empty field.
CsvField(x) == IF x.kind \in {"none", "nan"} THEN [kind |-> "empty"] ELSE x
CsvColumn(s) == [i \in 1..Len(s) |-> CsvField(s[i])]
\* MetricsTableDropna: the table had the rows without CNR been dropped.
RECURSIVE Keep(_, _)
Keep(s, flags) ==
    IF s = <<>> THEN <<>>
    ELSE (IF Head(flags) THEN <<Head(s)>> ELSE <<>>) \o Keep(Tail(s), Tail(flags))
MetricsTableDropna ==
    LET has == [i \in 1..Len(cnrs) |-> cnrs[i].kind # "none"] IN
    [written |-> TRUE,
     columns |-> <<"participant_id", "session_id", "EFC", "T_SNR", "CNR", "CJV">>,
     participant_id |-> Keep(subids, has),
     session_id |-> Keep(sesids, has),
     EFC |-> CsvColumn(Keep(efcs, has)),
     T_SNR |-> CsvColumn(Keep(t_snr, has)),
     CNR |-> CsvColumn(Keep(cnrs, has)),
     CJV |-> CsvColumn(Keep(cjvs, has))]
MetricsTable ==
    [written |-> TRUE,
     columns |-> <<"participant_id", "session_id", "EFC", "T_SNR", "CNR", "CJV">>,
     participant_id |-> subids,
     session_id |-> sesids,
     EFC |-> CsvColumn(efcs),
     T_SNR |-> CsvColumn(t_snr),
     CNR |-> CsvColumn(cnrs),
     CJV |-> CsvColumn(cjvs)]

\* The lists handed to pd.DataFrame must have one length.
SameLengths ==
    /\ Len(sesids) = Len(subids) /\ Len(efcs) = Len(subids)
    /\ Len(t_snr) = Len(subids)
    /\ Len(cnrs) = Len(subids) /\ Len(cjvs) = Len(subids)

\* The loop is over: every row of self.df was iterated (LoopDoneEarly: a
\* loop that stops one row short).
LoopDoneEarly == row >= Len(df)
LoopDone == row > Len(df)

Init ==
    /\ cols \in Namings
    /\ \E n \in 0..MaxRows : df \in [1..n -> Ids]
    /\ fsImg = [id \in Ids |-> Unknown]
    /\ fsSkull = [id \in Ids |-> Unknown]
    /\ fsSeg = [id \in Ids |-> Unknown]
    /\ pc = "loop" /\ row = 1
    /\ subids = <<>> /\ sesids = <<>> /\ efcs = <<>>
    /\ t_snr = <<>> /\ cnrs = <<>> /\ cjvs = <<>>
    /\ img_data = NoVol /\ stdout = <<>>
    /\ csv = [written |-> FALSE] /\ nwrites = 0 /\ exc = ""
    /\ fnImg = NoVol /\ fnSeg = NoLab /\ fnDtype = "float64"
    /\ fnOut = None /\ fnPc = "idle"

\* An exception leaves calculate_metrics and main: nothing catches it.
Raised(e) == pc' = "raised" /\ exc' = e

\* row["participant_id"], row["session_id"] and the two appends.
RowIds ==
    /\ pc = "loop" /\ ~LoopDone
    /\ IF BidsNames \subseteq cols
       THEN /\ subids' = Append(subids, df[row].sub)
            /\ sesids' = Append(sesids, df[row].ses)
            /\ pc' = "load_img"
            /\ exc' = exc
       ELSE /\ Raised("KeyError")
            /\ UNCHANGED <<subids, sesids>>
    /\ UNCHANGED <<cols, df, fsImg, fsSkull, fsSeg, row, efcs, t_snr, cnrs,
                   cjvs, img_data, stdout, csv, nwrites>>
    /\ UNCHANGED fnVars

\* nib.load(img_path) and the cast to int32.
LoadImg ==
    /\ pc = "load_img"
    /\ \E f \in ImgFiles \cup {Missing} :
          /\ Holds(fsImg, df[row], f)
          /\ fsImg' = [fsImg EXCEPT ![df[row]] = f]
          /\ IF f.kind = "file"
             THEN /\ img_data' = CastInt32(f.arr)
                  /\ pc' = "efc"
                  /\ exc' = exc
             ELSE /\ Raised("FileNotFoundError")
                  /\ UNCHANGED img_data
    /\ UNCHANGED <<cols, df, fsSkull, fsSeg, row, subids, sesids, efcs, t_snr,
                   cnrs, cjvs, stdout, csv, nwrites>>
    /\ UNCHANGED fnVars

\* _efc = efc(img_data), the diagnostic, efcs.append(_efc).
Efc ==
    /\ pc = "efc"
    /\ LET _efc == efc(img_data, "int32") IN
          /\ stdout' = IF NeedsDiagnostic(_efc)
                       THEN Append(stdout, <<subids[row], sesids[row]>>)
                       ELSE stdout
          /\ efcs' = Append(efcs, _efc)
    /\ pc' = "snr"
    /\ UNCHANGED <<cols, df, fsImg, fsSkull, fsSeg, row, subids, sesids, t_snr,
                   cnrs, cjvs, img_data, csv, nwrites, exc>>
    /\ UNCHANGED fnVars

\* nib.load(skullstrip_path).get_fdata() and t_snr.append(anatomical_snr(..)).
Snr ==
    /\ pc = "snr"
    /\ \E f \in SkullFiles \cup {Missing} :
          /\ Holds(fsSkull, df[row], f)
          /\ fsSkull' = [fsSkull EXCEPT ![df[row]] = f]
          /\ LET r == IF f.kind = "file" THEN anatomical_snr(f.arr)
                      ELSE Raise("FileNotFoundError")
             IN  IF r.kind = "raise"
                 THEN /\ Raised(r.exc)
                      /\ UNCHANGED t_snr
                 ELSE /\ t_snr' = Append(t_snr, r)
                      /\ pc' = "seg"
                      /\ exc' = exc
    /\ UNCHANGED <<cols, df, fsImg, fsSeg, row, subids, sesids, efcs, cnrs,
                   cjvs, img_data, stdout, csv, nwrites>>
    /\ UNCHANGED fnVars

\* os.path.exists(seg_path) and either branch; then the next row.
Segmentation ==
    /\ pc = "seg"
    /\ \E f \in SegFiles \cup {Missing} :
          /\ Holds(fsSeg, df[row], f)
          /\ fsSeg' = [fsSeg EXCEPT ![df[row]] = f]
          /\ LET r == SegMetrics(img_data, f) IN
             IF r.kind = "raise"
             THEN /\ Raised(r.exc)
                  /\ UNCHANGED <<cnrs, cjvs, row>>
             ELSE /\ cnrs' = Append(cnrs, r.cnr)
                  /\ cjvs' = Append(cjvs, r.cjv)
                  /\ row' = row + 1
                  /\ pc' = "loop"
                  /\ exc' = exc
    /\ UNCHANGED <<cols, df, fsImg, fsSkull, subids, sesids, efcs, t_snr,
                   img_data, stdout, csv, nwrites>>
    /\ UNCHANGED fnVars

\* After the loop: pd.DataFrame({...}) and to_csv.
WriteCsv ==
    /\ pc = "loop" /\ LoopDone
    /\ IF SameLengths
       THEN /\ csv' = MetricsTable
            /\ nwrites' = nwrites + 1
            /\ pc' = "written"
            /\ exc' = exc
       ELSE /\ Raised("ValueError")
            /\ UNCHANGED <<csv, nwrites>>
    /\ UNCHANGED <<cols, df, fsImg, fsSkull, fsSeg, row, subids, sesids, efcs,
                   t_snr, cnrs, cjvs, img_data, stdout>>
    /\ UNCHANGED fnVars

\* pd.merge(participants, metrics, on=[...]): every key must be a column of
\* both tables.
MergeKeys == {"SubID", "SessionID"}
MergeOk(left, right) == MergeKeys \subseteq left /\ MergeKeys \subseteq right

\* The rest of main: read metrics.csv back, create_all_plots,
\* print_statistics.
MainTail ==
    /\ pc = "written"
    /\ LET metricsCols == {csv.columns[k] : k \in 1..Len(csv.columns)} IN
       IF MergeOk(cols, metricsCols)
       THEN pc' = "done" /\ exc' = exc
       ELSE Raised("KeyError")
    /\ UNCHANGED <<cols, df, fsImg, fsSkull, fsSeg, row, subids, sesids, efcs,
                   t_snr, cnrs, cjvs, img_data, stdout, csv, nwrites>>
    /\ UNCHANGED fnVars

Next ==
    \/ RowIds
    \/ LoadImg
    \/ Efc
    \/ Snr
    \/ Segmentation
    \/ WriteCsv
    \/ MainTail

Spec == Init /\ [][Next]_vars

(***************************************************************************)
(* Properties.                                                             *)
(***************************************************************************)
\* The file a path of cohort row i holds.
ImgOf(i) == fsImg[df[i]]
SkullOf(i) == fsSkull[df[i]]
SegOf(i) == fsSeg[df[i]]

InLoop == pc \in {"loop", "load_img", "efc", "snr", "seg"}

\* C1: whenever the metrics table is written it has one row per cohort row,
\* in input order: row i carries the identifiers of cohort row i, and each
\* of the six columns is as long as the cohort table.
C1_TableMatchesCohort ==
    csv.written =>
        /\ Len(csv.participant_id) = Len(df)
        /\ Len(csv.session_id) = Len(df)
        /\ Len(csv.EFC) = Len(df)
        /\ Len(csv.T_SNR) = Len(df)
        /\ Len(csv.CNR) = Len(df)
        /\ Len(csv.CJV) = Len(df)
        /\ \A i \in 1..Len(df) :
              /\ csv.participant_id[i] = df[i].sub
              /\ csv.session_id[i] = df[i].ses

C1_Witness ==
    /\ csv.written
    /\ Len(df) = 2
    /\ df[1] # df[2]
    /\ csv.CNR[1].kind = "empty"
    /\ csv.CNR[2].kind = "ratio"

C3_MissingSkullStripIsNull ==
    \A i \in 1..Len(efcs) :
        SkullOf(i) = Missing =>
            /\ pc # "raised"
            /\ Len(t_snr) >= i
            /\ t_snr[i].kind = "none"

\* C4: the table is written at most once, only after every cohort row was
\* processed in full, never during the loop, and not at all when a load
\* failed; so a written table has an EFC for every row of identifiers.
C4_WrittenOnceAfterAllRows ==
    /\ nwrites <= 1
    /\ csv.written <=> nwrites = 1
    /\ InLoop => ~csv.written
    /\ exc \in {"FileNotFoundError", "ZeroDivisionError", "IndexError"} => ~csv.written
    /\ csv.written =>
          /\ Len(subids) = Len(df) /\ Len(sesids) = Len(df)
          /\ Len(efcs) = Len(df) /\ Len(t_snr) = Len(df)
          /\ Len(cnrs) = Len(df) /\ Len(cjvs) = Len(df)
          /\ Len(csv.EFC) = Len(csv.participant_id)
          /\ \A i \in 1..Len(df) : ImgOf(i).kind = "file" /\ IsNumber(efcs[i])

C4_Witness ==
    /\ exc = "FileNotFoundError"
    /\ Len(subids) = 2 /\ Len(efcs) = 1
    /\ ImgOf(2) = Missing
    /\ ~csv.written /\ nwrites = 0

\* C5: a NaN or infinite EFC is recorded as it is, a diagnostic names the
\* row's subject and session, and the run does not stop there.
RECURSIVE ExpectedDiagnostics(_)
ExpectedDiagnostics(k) ==
    IF k = 0 THEN <<>>
    ELSE ExpectedDiagnostics(k - 1)
         \o (IF efcs[k].kind \in {"nan", "inf"}
             THEN << <<df[k].sub, df[k].ses>> >> ELSE <<>>)

C5_NanEfcFlaggedNotFatal ==
    /\ \A i \in 1..Len(efcs) :
          efcs[i] = efc(CastInt32(ImgOf(i).arr), "int32")
    /\ stdout = ExpectedDiagnostics(Len(efcs))
    \* the step after the EFC is the SNR step, and an exception there is its own
    /\ Len(efcs) > Len(t_snr) =>
          \/ pc = "snr"
          \/ pc = "raised" /\ SkullOf(row) # Unknown
             /\ exc \in {"FileNotFoundError", "ZeroDivisionError"}

C5_Witness ==
    /\ csv.written
    /\ Len(efcs) = 2
    /\ efcs[1].kind = "nan" /\ efcs[2].kind = "inf"
    /\ Len(stdout) = 2
    /\ IsNumber(t_snr[1]) /\ IsNumber(t_snr[2])

\* C6: for a row whose segmentation exists and whose label array has not
\* the shape of the primary volume, a structural error is reported and no
\* metric is computed through a label mask.
C6_ShapeMismatchReported ==
    \A i \in 1..Len(t_snr) :
        (SegOf(i).kind = "file" /\ SegOf(i).arr.shape # ImgOf(i).arr.shape) =>
            Len(cnrs) < i /\ Len(cjvs) < i

\* C10: with either naming of the identifier columns, main runs to its end
\* without a KeyError.
C10_NoKeyError == exc # "KeyError"

(***************************************************************************)
(* Properties of the metric functions called on their own.                 *)
(***************************************************************************)
\* A volume of at least 2 voxels, all of one positive intensity.
UniformPositive(img) ==
    /\ Len(img.data) >= 2
    /\ img.data[1] > 0
    /\ \A i \in 1..Len(img.data) : img.data[i] = img.data[1]

\* C7, as claimed: efc of a uniform positive volume of at least 2 voxels,
\* without frame mask, is 0.
C7_UniformEfcIsZero ==
    (fnPc = "done" /\ UniformPositive(fnImg)) => EfcIsZero(fnOut)

\* C7, amended: efc of a uniform volume of at least 2 voxels of one intensity
\* c >= 1 whose squares do not overflow, without frame mask, is 1.
C7_UniformEfcIsOne ==
    (fnPc = "done" /\ UniformPositive(fnImg)) => EfcIsOne(fnOut)

C7_Witness ==
    /\ fnPc = "done"
    /\ fnDtype = "float64"
    /\ fnImg.data = <<2, 2, 2>>
    /\ EfcIsOne(fnOut)
    /\ ~EfcIsZero(fnOut)

\* The white-matter and gray-matter selections of the call.
WmStats == Stats(fnImg, Masked(fnImg, fnSeg, WM_LABELS))
GmStats == Stats(fnImg, Masked(fnImg, fnSeg, GM_LABELS))

\* Both masks are non-empty and the two means are equal.
EqualMeans ==
    /\ WmStats.k > 0 /\ GmStats.k > 0
    /\ WmStats.s * GmStats.k = GmStats.s * WmStats.k

\* C8, as claimed: with both masks non-empty and equal means cjv returns an
\* infinity, also when both standard deviations are zero.
C8_EqualMeansInfinite ==
    (fnPc = "done" /\ EqualMeans) => fnOut.kind = "inf"

\* C8, amended: with both masks non-empty and equal means cjv returns
\* +Infinity when a standard deviation is positive and NaN when both are
\* zero; it raises nothing and returns no finite value.
C8_EqualMeansInfOrNan ==
    (fnPc = "done" /\ EqualMeans) =>
        IF WmStats.v = 0 /\ GmStats.v = 0
        THEN fnOut.kind = "nan"
        ELSE fnOut.kind = "inf" /\ fnOut.sgn = 1

C8_Witness ==
    /\ fnPc = "done"
    /\ EqualMeans
    /\ WmStats.v > 0
    /\ fnOut.kind = "inf"

\* C9: on an int32 volume b_max is the root of the sum of the squares of the
\* intensities: no square wraps around.
C9_BMaxIsTrueRoot ==
    fnPc = "done" => BMaxSq(fnImg, fnDtype) = TrueSumSquares(fnImg.data)

====
